---- MODULE Spec2Model ----
(***************************************************************************)
(* State-machine model of the indicator extraction engine:                 *)
(*   - LLMService (src/src/services/llm_service.py): content-addressed     *)
(*     cache, retry with model fallback, cost ledger, reply parsing;       *)
(*   - DocumentPreprocessor (src/src/parsers/document_preprocessor.py):    *)
(*     context ranking and numeric normalisation;                          *)
(*   - IndicatorExtractor (src/src/extractors/indicator_extractor.py):     *)
(*     the ranked-context loop and the batch over the catalogue.           *)
(*                                                                         *)
(* Units.  Confidences are integers in thousandths (0.8 is 800).  Money is *)
(* an integer number of 1e-7 USD, so that every per-token price of         *)
(* TOKEN_COSTS is an integer; float rounding of the ledger is not          *)
(* modelled.  Strings whose characters matter are tuples of one-character  *)
(* strings.  The md5 cache key is the pair (model, full prompt): hash      *)
(* collisions are not modelled.                                            *)
(***************************************************************************)
EXTENDS Integers, Sequences, FiniteSets, TLC

\* ------------------------------------------------------------------ bounds
MaxRetryAttempts == 3
MaxCalls == 2
NumIndicators == 2
MaxPages == 3
MaxValueLen == 3
NumThreads == 2
MaxSeeds == 3

\* --------------------------------------------------------------- settings
openai_model_primary == "gpt-4-turbo-preview"
openai_model_fallback == "gpt-3.5-turbo"

\* The model names a caller may pass; NoModel is model=None.
NoModel == "None"
CallModels == {NoModel, "unlisted-model"}

\* max_api_cost_usd, in 1e-7 USD: the default (100.0 USD), and the caps the
\* gateway is explored with: 0.0 and one that a single call exceeds (0.001 USD).
DefaultCostCap == 1000000000
CostCaps == {0, 10000}

Settings ==
  [retry_attempts : 0..MaxRetryAttempts,
   use_fallback_model : BOOLEAN,
   enable_caching : BOOLEAN,
   max_api_cost_usd : CostCaps]

\* ------------------------------------------------------------ small helpers
None == [t |-> "null", s |-> <<>>]
Str(chars) == [t |-> "str", s |-> chars]
JsonNumber == [t |-> "num", s |-> <<>>]

NOT_FOUND == Str(<<"N", "O", "T", "_", "F", "O", "U", "N", "D">>)

Num(v) == [t |-> "num", v |-> v]
NonNumeric(kind) == [t |-> kind, v |-> 0]

Max(a, b) == IF a >= b THEN a ELSE b
Min(a, b) == IF a <= b THEN a ELSE b

\* ------------------------------------------------------- LLMService: costs
\* Price per token in 1e-7 USD (TOKEN_COSTS is per 1K tokens in USD).
TOKEN_COSTS ==
  [m \in {"gpt-4-turbo-preview", "gpt-4", "gpt-3.5-turbo"} |->
     CASE m = "gpt-4-turbo-preview" -> [input |-> 100, output |-> 300]
       [] m = "gpt-4"               -> [input |-> 300, output |-> 600]
       [] m = "gpt-3.5-turbo"       -> [input |-> 5,   output |-> 15]]

_calculate_cost(model, input_tokens, output_tokens) ==
  LET costs == IF model \in DOMAIN TOKEN_COSTS
               THEN TOKEN_COSTS[model]
               ELSE TOKEN_COSTS["gpt-3.5-turbo"]
  IN  input_tokens * costs.input + output_tokens * costs.output

\* ------------------------------------------------------- LLMService: cache
_get_cache_key(prompt, model) == <<model, prompt>>

\* full_prompt = f"{prompt}\n\nContext:\n{context}"
FullPrompt(prompt, context) == <<prompt, context>>

\* --------------------------------------------------------------- variables
VARIABLES
  settings,        \* self.settings: the fields the gateway reads
  total_tokens,    \* self.total_tokens
  total_cost,      \* self.total_cost
  cache,           \* cache_dir: cache key -> stored response
  call,            \* the extract_with_llm activation in progress
  history,         \* the last two completed extract_with_llm activations
  liveLog,         \* every successful provider response, in order
  pc,              \* where the control is
  nCalls,          \* gateway calls made directly by the caller so far
  pages,           \* the page sequence handed to batch_extract_indicators
  idx,             \* position of the batch loop in the catalogue
  contexts,        \* contexts of the indicator being extracted
  ctx_i,           \* position of the context loop (enumerate index i)
  best_result,     \* local best_result of extract_indicator
  best_confidence, \* local best_confidence of extract_indicator
  produced,        \* results of _extract_from_context for this indicator
  provider_calls,  \* provider requests issued for this indicator
  results,         \* the list batch_extract_indicators builds
  probe,           \* a pure function applied on its own: arguments and result
  threads,         \* the extract_with_llm activations of concurrent callers
  db               \* the tables of the database: indicators and companies

gatewayVars == <<total_tokens, total_cost, cache, call, history, liveLog>>
batchVars ==
  <<pages, idx, contexts, ctx_i, best_result, best_confidence, produced,
    provider_calls, results>>
sideVars == <<probe, threads, db>>
vars == <<settings, gatewayVars, pc, nCalls, batchVars, sideVars>>

\* -------------------------------------------------- provider replies (data)
\* A reply text is described by what parse_extraction_response reads in it:
\* its shape (a JSON object, free text, or no text at all), the value and
\* confidence it states and an extraction_method field if it carries one.
Reply(fmt, value, conf, method) ==
  [fmt |-> fmt, value |-> value, conf |-> conf, method |-> method]

NoContent == Reply("none", None, NonNumeric("missing"), "")

NumericText == Str(<<"1", ",", "2", "3", "4", ".", "5", " ", "t">>)
PercentText == Str(<<"4", "5", "%">>)

\* What the provider answers: the reply text with usage.prompt_tokens and
\* usage.completion_tokens.
Answer(content, prompt_tokens, completion_tokens) ==
  [content |-> content, prompt_tokens |-> prompt_tokens,
   completion_tokens |-> completion_tokens]

GatewayAnswers ==
  { Answer(Reply("json", NumericText, Num(900), ""), 1000, 200),
    Answer(Reply("json", NOT_FOUND, Num(900), ""), 3000, 500) }

BatchAnswers ==
  { Answer(Reply("json", NumericText, Num(900), ""), 1000, 200),
    Answer(Reply("json", PercentText, Num(500), ""), 1000, 100),
    Answer(Reply("json", NOT_FOUND, Num(900), ""), 3000, 500),
    Answer(Reply("json", NumericText, Num(0), ""), 2000, 200),
    Answer(Reply("json", NumericText, NonNumeric("str"), ""), 2000, 300),
    Answer(Reply("json", JsonNumber, Num(900), ""), 1000, 300),
    Answer(Reply("json", NumericText, Num(1400), ""), 1000, 200),
    Answer(Reply("json", NumericText, Num(-200), ""), 1000, 200),
    Answer(Reply("json", NumericText, Num(900), "not_found"), 1000, 200) }

\* ------------------------------------------------- LLMService: the gateway
NoResponse ==
  [content |-> NoContent, model |-> NoModel, input_tokens |-> 0,
   output_tokens |-> 0, total_tokens |-> 0, cost_usd |-> 0]

Ledger ==
  [tokens |-> total_tokens, cost |-> total_cost, cache |-> cache,
   live |-> Len(liveLog)]

IdleCall ==
  [active |-> FALSE, caller |-> "", requested |-> NoModel, model |-> NoModel,
   full_prompt |-> <<>>, cache_key |-> <<>>, use_cache |-> FALSE,
   attempt |-> 0, attempts |-> <<>>, slept |-> <<>>,
   before |-> [tokens |-> 0, cost |-> 0, cache |-> <<>>, live |-> 0]]

\* Mutant of _get_from_cache: no entry is ever found.
_get_from_cache_Miss(cache_key) == NoResponse

\* _get_from_cache: the stored response, or NoResponse for None.
_get_from_cache(cache_key) ==
  IF ~settings.enable_caching THEN NoResponse
  ELSE IF cache_key \in DOMAIN cache THEN cache[cache_key]
  ELSE NoResponse

\* _save_to_cache: the cache after the write.
_save_to_cache(cache_key, data) ==
  IF ~settings.enable_caching THEN cache
  ELSE (cache_key :> data) @@ cache

\* Mutant of CachedResponse: the cache is never consulted.
CachedResponse_NoHit(cache_key, use_cache) == NoResponse

\* Lines 149-155: the response the cache check returns, NoResponse if none.
CachedResponse(cache_key, use_cache) ==
  IF use_cache THEN _get_from_cache(cache_key) ELSE NoResponse

\* Mutant of RetryAllowed: one attempt too many.
RetryAllowed_OffByOne(attempt) == attempt < settings.retry_attempts

\* Mutant of RetryAllowed: twice the attempts configured.
RetryAllowed_Doubled(attempt) == attempt < 2 * settings.retry_attempts - 1

\* Line 213: whether a failed attempt is followed by another one.
RetryAllowed(attempt) == attempt < settings.retry_attempts - 1

\* Mutant of NextModel: the fallback model is never switched to.
NextModel_Stay(model) == model

\* Mutant of NextModel: any model is replaced by the fallback model.
NextModel_Any(model) ==
  IF settings.use_fallback_model THEN openai_model_fallback ELSE model

\* Lines 215-217: the model of the attempt that follows a failed one.
NextModel(model) ==
  IF settings.use_fallback_model /\ model = openai_model_primary
  THEN openai_model_fallback
  ELSE model

\* Line 220: seconds slept after the failed attempt with this index.
retry_delay == 2

\* Mutant of WaitTime: the same delay after every failed attempt.
WaitTime_Constant(attempt) == retry_delay
WaitTime(attempt) == retry_delay * (2 ^ attempt)

\* Mutant of LedgerAfter: the completion tokens are left out.
LedgerAfter_InputOnly(input_tokens, output_tokens, cost) ==
  [tokens |-> total_tokens + input_tokens, cost |-> total_cost + cost]

\* Lines 186-188: the ledger after a successful provider response.
LedgerAfter(input_tokens, output_tokens, cost) ==
  [tokens |-> total_tokens + input_tokens + output_tokens,
   cost |-> total_cost + cost]

\* The record kept of a completed activation.
Completed(c, ok, response, tokens, cost, newCache, live) ==
  [requested |-> c.requested, full_prompt |-> c.full_prompt,
   use_cache |-> c.use_cache, caller |-> c.caller, ok |-> ok,
   response |-> response, attempts |-> c.attempts, slept |-> c.slept,
   before |-> c.before,
   after |-> [tokens |-> tokens, cost |-> cost, cache |-> newCache,
              live |-> live]]

Remember(h, rec) == IF Len(h) < 2 THEN Append(h, rec) ELSE <<h[2], rec>>

\* What a gateway activation hands back to its caller.
Returned(response) == [kind |-> "ok", response |-> response]
Raised == [kind |-> "raise", response |-> NoResponse]
Pending == [kind |-> "pending", response |-> NoResponse]

\* ------------------------------------------- LLMService: parsing the reply
\* parse_extraction_response.  A JSON object maps its fields directly; any
\* other text goes through the line parser, which starts from value None and
\* confidence 0.0, stores a "value:" line as a string and a "confidence:"
\* line as float(text without '%') / 100 (left at 0.0 when float() fails).
\* conf.v of a free-text reply is the number written, in thousandths.
\* No text at all (content None) raises on .strip().
parse_extraction_response(content) ==
  CASE content.fmt = "json" ->
         [raised |-> FALSE, value |-> content.value,
          confidence |-> content.conf, extraction_method |-> content.method]
    [] content.fmt = "text" ->
         [raised |-> FALSE,
          value |-> IF content.value.t = "str" THEN content.value ELSE None,
          confidence |-> IF content.conf.t = "num"
                         THEN Num(content.conf.v \div 100)
                         ELSE Num(0),
          extraction_method |-> ""]
    [] OTHER ->
         [raised |-> TRUE, value |-> None, confidence |-> Num(0),
          extraction_method |-> ""]

\* ---------------------------------- DocumentPreprocessor: normalize_value
Digits == {"0", "1", "2", "3", "4", "5", "6", "7", "8", "9"}
DigitVal(c) ==
  CASE c = "0" -> 0 [] c = "1" -> 1 [] c = "2" -> 2 [] c = "3" -> 3
    [] c = "4" -> 4 [] c = "5" -> 5 [] c = "6" -> 6 [] c = "7" -> 7
    [] c = "8" -> 8 [] c = "9" -> 9

Without(s, chars) == SelectSeq(s, LAMBDA c : c \notin chars)

\* The decimal number a run of digits s[from..to] writes (0 for none).
RECURSIVE DigitsValue(_, _, _)
DigitsValue(s, from, to) ==
  IF to < from THEN 0
  ELSE 10 * DigitsValue(s, from, to - 1) + DigitVal(s[to])

\* The last index of the run of digits of s that starts at from (from - 1
\* when s[from] is no digit).
RECURSIVE DigitRunEnd(_, _)
DigitRunEnd(s, from) ==
  IF from <= Len(s) /\ s[from] \in Digits
  THEN DigitRunEnd(s, from + 1)
  ELSE from - 1

NoNumber == [t |-> "none", v |-> 0]
Float(v) == [t |-> "float", v |-> v]

\* re.search(r'-?\d+\.?\d*', s) and float() of the match, in thousandths
\* (digits after the third decimal place are dropped).
FirstNumber(s) ==
  LET starts == {i \in 1..Len(s) :
                   \/ s[i] \in Digits
                   \/ s[i] = "-" /\ i < Len(s) /\ s[i + 1] \in Digits}
  IN  IF starts = {} THEN NoNumber
      ELSE LET start == CHOOSE i \in starts : \A j \in starts : i <= j
               neg == s[start] = "-"
               first == IF neg THEN start + 1 ELSE start
               intEnd == DigitRunEnd(s, first)
               hasDot == intEnd < Len(s) /\ s[intEnd + 1] = "."
               fracEnd == IF hasDot THEN DigitRunEnd(s, intEnd + 2)
                          ELSE intEnd
               fracLen == IF hasDot THEN Min(3, fracEnd - (intEnd + 1))
                          ELSE 0
               frac == IF fracLen = 0 THEN 0
                       ELSE DigitsValue(s, intEnd + 2, intEnd + 1 + fracLen)
                            * (10 ^ (3 - fracLen))
               magnitude == DigitsValue(s, first, intEnd) * 1000 + frac
           IN  Float(IF neg THEN 0 - magnitude ELSE magnitude)

\* normalize_value: a falsy value gives None; a value that is not a string
\* (a JSON number) has no .replace and raises.
normalize_value(value) ==
  CASE value.t = "null" -> [raised |-> FALSE, number |-> NoNumber]
    [] value.t = "num" -> [raised |-> TRUE, number |-> NoNumber]
    [] OTHER ->
         IF value.s = <<>> THEN [raised |-> FALSE, number |-> NoNumber]
         ELSE [raised |-> FALSE,
               number |->
                 FirstNumber(
                   Without(Without(Without(value.s, {",", " "}), {"%"}),
                           {"€", "$", "£", "¥"}))]

\* ------------------------------------------------ the indicator catalogue
\* The indicators the batch is run on: entries number 1, 4, 5 and 6 of
\* INDICATORS, in catalogue order.
IndicatorNumbers == << 1, 4, 5, 6 >>
IndicatorNames ==
  << "Total Scope 1 GHG Emissions", "GHG Emissions Intensity",
     "Total Energy Consumption", "Renewable Energy Percentage" >>
IndicatorUnits ==
  << "tCO₂e", "tCO₂e per €M revenue", "MWh or GJ", "%" >>

Indicators ==
  [i \in 1..NumIndicators |->
     [id |-> IndicatorNumbers[i], name |-> IndicatorNames[i],
      unit |-> IndicatorUnits[i]]]

\* ------------------------- DocumentPreprocessor: create_context_for_indicator
\* re.findall(r'\b\w+\b', text.lower()) for the names and page texts explored.
Words(text) ==
  CASE text = "Total Scope 1 GHG Emissions" ->
         <<"total", "scope", "1", "ghg", "emissions">>
    [] text = "GHG Emissions Intensity" -> <<"ghg", "emissions", "intensity">>
    [] text = "Total Energy Consumption" -> <<"total", "energy", "consumption">>
    [] text = "Renewable Energy Percentage" ->
         <<"renewable", "energy", "percentage">>
    [] text = "ghg emissions" -> <<"ghg", "emissions">>
    [] text = "scope 1" -> <<"scope", "1">>
    [] text = "intensity" -> <<"intensity">>

stop_words ==
  {"the", "a", "an", "and", "or", "but", "in", "on", "at", "to", "for"}

\* The words explored that have at most two characters.
ShortWords == {"1", "a", "an", "or", "in", "on", "at", "to"}

\* _extract_keywords: the words that are no stop words and longer than two
\* characters.
_extract_keywords(text) ==
  SelectSeq(Words(text), LAMBDA w : w \notin stop_words /\ w \notin ShortWords)

\* page_text.count(keyword): among the words explored none is part of
\* another, so the occurrences are the words equal to the keyword.
Count(keyword, text) ==
  Cardinality({i \in DOMAIN Words(text) : Words(text)[i] = keyword})

RECURSIVE SumCounts(_, _)
SumCounts(keywords, text) ==
  IF keywords = <<>> THEN 0
  ELSE Count(Head(keywords), text) + SumCounts(Tail(keywords), text)

\* The page texts of the documents explored.
PageTexts == {"ghg emissions", "scope 1"}

\* Lines 219-230: the sum of page_text.count(keyword) over the keywords of
\* the indicator's name.
relevance_score(indicator, text) ==
  SumCounts(_extract_keywords(indicator.name), text)

\* PageContent: the text of a page and its tables, a list (here the empty
\* one) or None for a page that was built without tables.
PageContent(text, tables) == [text |-> text, tables |-> tables]
PageContents ==
  {PageContent(t, "list") : t \in PageTexts}
    \cup {PageContent("intensity", "None")}

\* Two documents with more relevant pages than the context loop attempts:
\* five for the first indicator of the catalogue, and four.
LongDocuments ==
  { [n \in 1..Len(texts) |-> PageContent(texts[n], "list")] :
      texts \in { <<"scope 1", "ghg emissions", "scope 1", "ghg emissions",
                    "scope 1">>,
                  <<"ghg emissions", "ghg emissions", "scope 1",
                    "ghg emissions">> } }

Documents ==
  UNION {[1..n -> PageContents] : n \in 0..MaxPages} \cup LongDocuments

Page(doc, n) == [page_number |-> n, text |-> doc[n].text]

\* Mutant of InsertByScore: an element goes before the elements of equal score.
RECURSIVE InsertByScore_TiesReversed(_, _)
InsertByScore_TiesReversed(sorted, c) ==
  IF sorted = <<>> THEN <<c>>
  ELSE IF Head(sorted).relevance_score > c.relevance_score
       THEN <<Head(sorted)>> \o InsertByScore_TiesReversed(Tail(sorted), c)
       ELSE <<c>> \o sorted

\* list.sort(key=relevance_score, reverse=True): stable, so an element goes
\* behind every element already placed whose score is not smaller.
RECURSIVE InsertByScore(_, _)
InsertByScore(sorted, c) ==
  IF sorted = <<>> THEN <<c>>
  ELSE IF Head(sorted).relevance_score >= c.relevance_score
       THEN <<Head(sorted)>> \o InsertByScore(Tail(sorted), c)
       ELSE <<c>> \o sorted

RECURSIVE SortByScore(_)
SortByScore(cs) ==
  IF cs = <<>> THEN <<>>
  ELSE InsertByScore(SortByScore(SubSeq(cs, 1, Len(cs) - 1)), cs[Len(cs)])

Take(seq, n) == SubSeq(seq, 1, Min(n, Len(seq)))

\* Line 244: len(page.tables) raises TypeError for a page without tables; the
\* line is reached for the pages whose relevance score is positive.
ScoringRaises(indicator, doc) ==
  \E n \in DOMAIN doc :
    /\ relevance_score(indicator, doc[n].text) > 0
    /\ doc[n].tables = "None"

create_context_for_indicator(indicator, doc, max_contexts) ==
  LET all == [n \in 1..Len(doc) |->
                [page_number |-> n, text |-> doc[n].text,
                 relevance_score |-> relevance_score(indicator, doc[n].text)]]
      relevant == SelectSeq(all, LAMBDA c : c.relevance_score > 0)
  IN  Take(SortByScore(relevant), max_contexts)

\* ------------------------------------------------------ IndicatorExtractor
NoCandidate ==
  [some |-> FALSE, value |-> None, confidence |-> Num(0),
   extraction_method |-> "", model_used |-> NoModel, tokens_used |-> 0,
   cost_usd |-> 0, source_page |-> 0, raw_text |-> ""]

\* _extract_from_context after the gateway has answered: the parsed reply
\* with the response's metadata, or None when anything raised.
Candidate(outcome, context) ==
  IF outcome.kind # "ok" THEN NoCandidate
  ELSE LET parsed == parse_extraction_response(outcome.response.content)
       IN  IF parsed.raised THEN NoCandidate
           ELSE [some |-> TRUE, value |-> parsed.value,
                 confidence |-> parsed.confidence,
                 extraction_method |-> parsed.extraction_method,
                 model_used |-> outcome.response.model,
                 tokens_used |-> outcome.response.total_tokens,
                 cost_usd |-> outcome.response.cost_usd,
                 source_page |-> context.page_number,
                 raw_text |-> context.text]

\* result.get('confidence', 0)
GetConfidence(result) ==
  IF result.confidence.t = "missing" THEN Num(0) ELSE result.confidence

\* Line 88: comparing a confidence that is no number with a float raises.
ComparisonRaises(result) ==
  result.some /\ GetConfidence(result).t # "num"

\* Mutant of Better: the latest candidate always replaces the incumbent.
Better_Latest(result, best) == result.some

\* Mutant of Better: a candidate of equal confidence replaces the incumbent.
Better_OrEqual(result, best) ==
  result.some /\ GetConfidence(result).v >= best

\* Line 88: result and result.get('confidence', 0) > best_confidence
Better(result, best) ==
  result.some /\ GetConfidence(result).v > best

\* Mutant of HighConfidence: the loop never stops early.
HighConfidence_Never(best) == FALSE

\* Line 93
confidence_stop == 800
HighConfidence(best) == best >= confidence_stop

\* Line 76: contexts[:3]
contexts_tried == 3
\* Line 65: max_contexts=5
contexts_requested == 5
\* Mutant of Attempted: every context requested is attempted.
Attempted_All(cs) == cs

Attempted(cs) == Take(cs, contexts_tried)

\* Line 97
IsNotFound(best) == ~best.some \/ best.value = NOT_FOUND

\* _create_not_found_result / _create_error_result
Note(prefix, reason, n) == [prefix |-> prefix, reason |-> reason, n |-> n]
NoNote == Note("", "", 0)

Unresolved(indicator, method, note) ==
  [value |-> None, numeric_value |-> NoNumber, unit |-> indicator.unit,
   confidence |-> 0, source_page |-> 0, raw_text |-> "", notes |-> note,
   model_used |-> NoModel, tokens_used |-> 0, cost_usd |-> 0,
   extraction_method |-> method]

\* Mutant of _create_not_found_result: the record is tagged as an error.
_create_not_found_result_AsError(indicator, reason) ==
  Unresolved(indicator, "error", reason)

_create_not_found_result(indicator, reason) ==
  Unresolved(indicator, "not_found", reason)

\* Mutant of _create_error_result: the failure is reported as not found.
_create_error_result_AsNotFound(indicator, error_message) ==
  Unresolved(indicator, "not_found", error_message)

_create_error_result(indicator, error_message) ==
  Unresolved(indicator, "error", error_message)

\* Mutant of ClampConfidence: the confidence is stored as the reply states it.
ClampConfidence_Unclamped(result) ==
  IF result.confidence.t = "num" THEN result.confidence.v ELSE 0

\* Lines 197-201 (reached with a numeric or missing confidence only).
ClampConfidence(result) ==
  LET confidence == IF result.confidence.t = "missing" THEN 0
                    ELSE IF result.confidence.t # "num" THEN 500
                    ELSE result.confidence.v
  IN  Max(0, Min(1000, confidence))

\* Lines 203-208; the word "table" is in neither page text explored.
ExtractionMethod(result) ==
  IF result.extraction_method # "" THEN result.extraction_method
  ELSE "direct"

\* _post_process_result
_post_process_result(result, indicator) ==
  [value |-> result.value,
   numeric_value |-> normalize_value(result.value).number,
   unit |-> indicator.unit,
   confidence |-> ClampConfidence(result),
   source_page |-> result.source_page, raw_text |-> result.raw_text,
   notes |-> NoNote, model_used |-> result.model_used,
   tokens_used |-> result.tokens_used, cost_usd |-> result.cost_usd,
   extraction_method |-> ExtractionMethod(result)]

\* Lines 97-116: the record extract_indicator returns after the loop.
AfterLoop(indicator, best, n_contexts) ==
  IF IsNotFound(best)
  THEN _create_not_found_result(
         indicator,
         Note("Not found", "Indicator not found after checking contexts",
              n_contexts))
  ELSE IF normalize_value(best.value).raised
       THEN _create_error_result(
              indicator, Note("Extraction error", "AttributeError", 0))
       ELSE _post_process_result(best, indicator)

\* Mutant of Emit: the record goes to the front of the list.
Emit_Prepend(rs, indicator, result) ==
  <<[indicator_id |-> indicator.id,
     indicator_name |-> indicator.name] @@ result>> \o rs

\* Lines 284-286: the record the batch appends for an indicator.
Emit(rs, indicator, result) ==
  Append(rs, [indicator_id |-> indicator.id,
              indicator_name |-> indicator.name] @@ result)

\* ------------------------------------------------ returning to the caller
\* Lines 88-95 and 114-116 for the result of one context, then the loop's
\* next iteration or its end.
ContextReturn(outcome) ==
  LET indicator == Indicators[idx]
      result == Candidate(outcome, contexts[ctx_i])
      better == Better(result, best_confidence)
      best == IF better THEN GetConfidence(result).v ELSE best_confidence
      last == ctx_i >= Len(Attempted(contexts))
  IN  /\ produced' = Append(produced, result)
      /\ UNCHANGED <<pages, contexts, provider_calls>>
      /\ IF ComparisonRaises(result)
         THEN /\ results' = Emit(results, indicator,
                                 _create_error_result(
                                   indicator,
                                   Note("Extraction error", "TypeError", 0)))
              /\ idx' = idx + 1
              /\ pc' = "batch_loop"
              /\ UNCHANGED <<ctx_i, best_result, best_confidence>>
         ELSE /\ best_result' = IF better THEN result ELSE best_result
              /\ best_confidence' = best
              /\ UNCHANGED <<results, idx>>
              /\ IF HighConfidence(best) \/ last
                 THEN pc' = "after_loop" /\ ctx_i' = ctx_i
                 ELSE pc' = "context_loop" /\ ctx_i' = ctx_i + 1

\* A direct caller takes whatever extract_with_llm returned or raised.
DirectReturn(outcome) ==
  /\ pc' = "idle"
  /\ UNCHANGED batchVars

\* The provider request is in flight; the caller is blocked.
Blocked ==
  /\ pc' = "provider"
  /\ UNCHANGED <<pages, idx, contexts, ctx_i, best_result, best_confidence,
                 produced, results>>
  /\ provider_calls' = provider_calls + 1

Return(caller, outcome) ==
  CASE outcome.kind = "pending" -> Blocked
    [] caller = "extractor" -> ContextReturn(outcome)
    [] OTHER -> DirectReturn(outcome)

\* ------------------------------------------- LLMService.extract_with_llm
\* Lines 142-158: resolve the model, check the cache, enter the retry loop.
extract_with_llm(prompt, context, model, use_cache, caller) ==
  LET m == IF model = NoModel THEN openai_model_primary ELSE model
      full_prompt == FullPrompt(prompt, context)
      cache_key == _get_cache_key(full_prompt, m)
      cached_response == CachedResponse(cache_key, use_cache)
      c == [active |-> TRUE, caller |-> caller, requested |-> m,
            model |-> m, full_prompt |-> full_prompt,
            cache_key |-> cache_key, use_cache |-> use_cache,
            attempt |-> 0, attempts |-> <<>>, slept |-> <<>>,
            before |-> Ledger]
  IN  /\ UNCHANGED <<total_tokens, total_cost, cache, liveLog>>
      /\ IF cached_response # NoResponse
         THEN /\ call' = IdleCall
              /\ history' = Remember(history,
                                     Completed(c, TRUE, cached_response,
                                               total_tokens, total_cost, cache,
                                               Len(liveLog)))
              /\ Return(caller, Returned(cached_response))
         ELSE IF settings.retry_attempts <= 0
         THEN /\ call' = IdleCall
              /\ history' = Remember(history,
                                     Completed(c, FALSE, NoResponse,
                                               total_tokens, total_cost, cache,
                                               Len(liveLog)))
              /\ Return(caller, Raised)
         ELSE /\ call' = c
              /\ history' = history
              /\ Return(caller, Pending)

\* Lines 159-208: the provider answers the attempt in flight.
ProviderSucceeds(response) ==
  /\ pc = "provider"
  /\ LET content == response.content
         input_tokens == response.prompt_tokens
         output_tokens == response.completion_tokens
         cost == _calculate_cost(call.model, input_tokens, output_tokens)
         ledger == LedgerAfter(input_tokens, output_tokens, cost)
         result == [content |-> content, model |-> call.model,
                    input_tokens |-> input_tokens,
                    output_tokens |-> output_tokens,
                    total_tokens |-> input_tokens + output_tokens,
                    cost_usd |-> cost]
         newCache == IF call.use_cache
                     THEN _save_to_cache(call.cache_key, result)
                     ELSE cache
         done == [call EXCEPT
                    !.attempts = Append(@, [model |-> call.model, ok |-> TRUE])]
     IN  /\ total_tokens' = ledger.tokens
         /\ total_cost' = ledger.cost
         /\ cache' = newCache
         /\ liveLog' = Append(liveLog,
                              [model |-> call.model,
                               input_tokens |-> input_tokens,
                               output_tokens |-> output_tokens])
         /\ history' = Remember(history,
                                Completed(done, TRUE, result, ledger.tokens,
                                          ledger.cost, newCache,
                                          Len(liveLog) + 1))
         /\ call' = IdleCall
         /\ Return(call.caller, Returned(result))
  /\ UNCHANGED <<settings, sideVars, nCalls>>

\* Lines 210-222: the attempt in flight fails and another one follows.
ProviderFailsRetry ==
  /\ pc = "provider"
  /\ RetryAllowed(call.attempt)
  /\ call' = [call EXCEPT
                !.attempts = Append(@, [model |-> call.model, ok |-> FALSE]),
                !.model = NextModel(@),
                !.slept = Append(@, WaitTime(call.attempt)),
                !.attempt = @ + 1]
  /\ provider_calls' = provider_calls + 1
  /\ UNCHANGED <<settings, sideVars, total_tokens, total_cost, cache, history, liveLog,
                 pc, nCalls, pages, idx, contexts, ctx_i,
                 best_result, best_confidence, produced, results>>

\* Lines 210-213 and 223-224: the last attempt fails and its error is raised.
ProviderFailsFinal ==
  /\ pc = "provider"
  /\ ~RetryAllowed(call.attempt)
  /\ LET done == [call EXCEPT
                    !.attempts = Append(@, [model |-> call.model, ok |-> FALSE])]
     IN  history' = Remember(history,
                             Completed(done, FALSE, NoResponse, total_tokens,
                                       total_cost, cache, Len(liveLog)))
  /\ call' = IdleCall
  /\ Return(call.caller, Raised)
  /\ UNCHANGED <<settings, sideVars, total_tokens, total_cost, cache, liveLog, nCalls>>

\* A caller invokes the gateway directly.
DirectCall(prompt, context, model, use_cache) ==
  /\ pc = "idle"
  /\ nCalls < MaxCalls
  /\ nCalls' = nCalls + 1
  /\ extract_with_llm(prompt, context, model, use_cache, "direct")
  /\ UNCHANGED <<settings, sideVars>>

\* ------------------------------------------- LLMService.get_cost_summary
\* round(): the nearest multiple, a tie going to the even one.
RoundDiv(n, d) ==
  LET q == n \div d
      r == n % d
  IN  IF 2 * r < d THEN q
      ELSE IF 2 * r > d THEN q + 1
      ELSE IF q % 2 = 0 THEN q ELSE q + 1

NoSummary ==
  [produced |-> FALSE, raised |-> FALSE, total_tokens |-> 0,
   total_cost_usd |-> 0, max_cost_usd |-> 0, cost_percentage |-> 0]

\* total_cost_usd is in 1e-4 USD, cost_percentage in hundredths of a percent
\* (the caps explored are multiples of 0.001 USD, so the cap is scaled rather
\* than the cost); the division by max_api_cost_usd raises ZeroDivisionError
\* for a cap of 0.
get_cost_summary ==
  IF settings.max_api_cost_usd = 0
  THEN [NoSummary EXCEPT !.raised = TRUE]
  ELSE [produced |-> TRUE, raised |-> FALSE, total_tokens |-> total_tokens,
        total_cost_usd |-> RoundDiv(total_cost, 1000),
        max_cost_usd |-> settings.max_api_cost_usd,
        cost_percentage |->
          RoundDiv(total_cost, settings.max_api_cost_usd \div 10000)]

\* ------------------------------ IndicatorExtractor.batch_extract_indicators
\* Lines 271-275: the batch starts on a document.
BatchStart(doc) ==
  /\ pc = "start"
  /\ pages' = doc
  /\ results' = <<>>
  /\ idx' = 1
  /\ pc' = "batch_loop"
  /\ UNCHANGED <<settings, sideVars, gatewayVars, nCalls, contexts, ctx_i,
                 best_result, best_confidence, produced, provider_calls>>

\* Lines 275-286 with 60-66 and 114-116: scoring the pages raises, the
\* exception is caught in extract_indicator and becomes the indicator's record.
ExtractScoringRaises ==
  /\ pc = "batch_loop"
  /\ idx <= NumIndicators
  /\ ScoringRaises(Indicators[idx], pages)
  /\ results' = Emit(results, Indicators[idx],
                     _create_error_result(
                       Indicators[idx],
                       Note("Extraction error",
                            "object of type 'NoneType' has no len()", 0)))
  /\ idx' = idx + 1
  /\ contexts' = <<>>
  /\ ctx_i' = 0
  /\ best_result' = NoCandidate
  /\ best_confidence' = 0
  /\ produced' = <<>>
  /\ provider_calls' = 0
  /\ UNCHANGED <<settings, sideVars, gatewayVars, pc, nCalls, pages>>

\* Lines 275-286 with 60-70: the next indicator has no relevant context.
ExtractNoContext ==
  /\ pc = "batch_loop"
  /\ idx <= NumIndicators
  /\ ~ScoringRaises(Indicators[idx], pages)
  /\ LET indicator == Indicators[idx]
         found == create_context_for_indicator(indicator, pages,
                                               contexts_requested)
     IN  /\ found = <<>>
         /\ contexts' = found
         /\ results' = Emit(results, indicator,
                            _create_not_found_result(
                              indicator,
                              Note("Not found",
                                   "No relevant context found in document", 0)))
  /\ idx' = idx + 1
  /\ ctx_i' = 0
  /\ best_result' = NoCandidate
  /\ best_confidence' = 0
  /\ produced' = <<>>
  /\ provider_calls' = 0
  /\ UNCHANGED <<settings, sideVars, gatewayVars, pc, nCalls, pages>>

\* Lines 275-282 with 60-76: the next indicator has contexts to try.
ExtractSearch ==
  /\ pc = "batch_loop"
  /\ idx <= NumIndicators
  /\ ~ScoringRaises(Indicators[idx], pages)
  /\ LET found == create_context_for_indicator(Indicators[idx], pages,
                                               contexts_requested)
     IN  /\ found # <<>>
         /\ contexts' = found
  /\ ctx_i' = 1
  /\ best_result' = NoCandidate
  /\ best_confidence' = 0
  /\ produced' = <<>>
  /\ provider_calls' = 0
  /\ pc' = "context_loop"
  /\ UNCHANGED <<settings, sideVars, gatewayVars, nCalls, pages, idx, results>>

\* Lines 76-86 with 135-152: the prompt of the indicator and the text of the
\* context go to the gateway (model=None, use_cache=True).
AttemptContext ==
  /\ pc = "context_loop"
  /\ extract_with_llm(Indicators[idx].name, contexts[ctx_i].text, NoModel,
                      TRUE, "extractor")
  /\ UNCHANGED <<settings, sideVars, nCalls>>

\* Lines 97-112 and 284-286: the loop is over, the record is emitted.
FinishIndicator ==
  /\ pc = "after_loop"
  /\ results' = Emit(results, Indicators[idx],
                     AfterLoop(Indicators[idx], best_result, Len(contexts)))
  /\ idx' = idx + 1
  /\ pc' = "batch_loop"
  /\ UNCHANGED <<settings, sideVars, gatewayVars, nCalls, pages, contexts,
                 ctx_i, best_result, best_confidence, produced,
                 provider_calls>>

\* Lines 288-290: every indicator is done, the list is returned.
BatchReturn ==
  /\ pc = "batch_loop"
  /\ idx > NumIndicators
  /\ pc' = "returned"
  /\ UNCHANGED <<settings, sideVars, gatewayVars, nCalls, batchVars>>

\* --------------------------------------------------------- specifications
\* No pure function is under test; no concurrent caller exists.
NoProbe == [fn |-> "", args |-> <<>>, done |-> FALSE, result |-> <<>>]
NoThreads == <<>>

\* Base.metadata.create_all on a new database: the tables are empty.  seeds
\* counts the seed_database calls made, created the create_indicator calls
\* made by other callers.
NoDatabase ==
  [indicators |-> <<>>, companies |-> <<>>, seeds |-> 0, created |-> 0]

InitState(control, configurations) ==
  /\ settings \in configurations
  /\ total_tokens = 0
  /\ total_cost = 0
  /\ cache = <<>>
  /\ call = IdleCall
  /\ history = <<>>
  /\ liveLog = <<>>
  /\ pc = control
  /\ nCalls = 0
  /\ pages = <<>>
  /\ idx = 0
  /\ contexts = <<>>
  /\ ctx_i = 0
  /\ best_result = NoCandidate
  /\ best_confidence = 0
  /\ produced = <<>>
  /\ provider_calls = 0
  /\ results = <<>>

\* The gateway on its own: direct calls and cost summaries.
Init ==
  /\ InitState("idle", Settings)
  /\ probe = NoProbe
  /\ threads = NoThreads
  /\ db = NoDatabase

Next ==
  \/ \E context \in PageTexts, model \in CallModels, use_cache \in BOOLEAN :
       DirectCall(Indicators[1].name, context, model, use_cache)
  \/ \E response \in GatewayAnswers : ProviderSucceeds(response)
  \/ ProviderFailsRetry
  \/ ProviderFailsFinal

Spec == Init /\ [][Next]_vars

\* One batch over the catalogue, with the cache enabled and the default cap.
BatchSettings ==
  [retry_attempts : 0..MaxRetryAttempts,
   use_fallback_model : BOOLEAN,
   enable_caching : {TRUE},
   max_api_cost_usd : {DefaultCostCap}]

InitBatch ==
  /\ InitState("start", BatchSettings)
  /\ probe = NoProbe
  /\ threads = NoThreads
  /\ db = NoDatabase

NextBatch ==
  \/ \E doc \in Documents : BatchStart(doc)
  \/ ExtractScoringRaises
  \/ ExtractNoContext
  \/ ExtractSearch
  \/ AttemptContext
  \/ \E response \in BatchAnswers : ProviderSucceeds(response)
  \/ ProviderFailsRetry
  \/ ProviderFailsFinal
  \/ FinishIndicator
  \/ BatchReturn

SpecBatch == InitBatch /\ [][NextBatch]_vars

\* The batch when every step that can be taken is taken: the interpreter
\* goes on, and every provider request returns or fails.  A step of NextBatch
\* is possible in every state but the returned one, so this is weak fairness
\* of NextBatch, WF_vars(NextBatch), with its enabling condition written out.
SpecBatchFair ==
  SpecBatch /\ ([]<><<NextBatch>>_vars \/ <>[](pc = "returned"))

\* create_context_for_indicator on its own: any indicator, any document whose
\* pages have tables, any max_contexts from 1 to the one extract_indicator
\* passes.
RankedPages == {PageContent(t, "list") : t \in PageTexts \cup {"intensity"}}
RankedDocuments == UNION {[1..n -> RankedPages] : n \in 0..MaxPages}

RankerProbes ==
  {[fn |-> "create_context_for_indicator", args |-> <<i, doc, max_contexts>>,
    done |-> FALSE, result |-> <<>>] :
     i \in 1..NumIndicators, doc \in RankedDocuments,
     max_contexts \in 1..contexts_requested}

ApplyRanker ==
  /\ probe.fn = "create_context_for_indicator"
  /\ ~probe.done
  /\ probe' = [probe EXCEPT
                 !.done = TRUE,
                 !.result = create_context_for_indicator(
                              Indicators[probe.args[1]], probe.args[2],
                              probe.args[3])]
  /\ UNCHANGED <<settings, gatewayVars, pc, nCalls, batchVars, threads, db>>

InitRanker ==
  /\ InitState("idle", BatchSettings)
  /\ probe \in RankerProbes
  /\ threads = NoThreads
  /\ db = NoDatabase

NextRanker == ApplyRanker

SpecRanker == InitRanker /\ [][NextRanker]_vars

\* One batch on documents whose pages all have tables (scoring never raises),
\* answered with replies in both shapes: JSON objects, one of them with a
\* null value (a missing value field reads the same through .get), and free
\* text with the lines "value: 1,234.5 t" (or no value line) and
\* "confidence: 90%" or "confidence: 0.9".
ReplyAnswers ==
  { Answer(Reply("json", NumericText, Num(900), ""), 1000, 200),
    Answer(Reply("json", None, Num(900), ""), 1000, 200),
    Answer(Reply("text", NumericText, Num(90000), ""), 1000, 200),
    Answer(Reply("text", NumericText, Num(900), ""), 1000, 200),
    Answer(Reply("text", None, Num(90000), ""), 1000, 200) }

NextReplies ==
  \/ \E doc \in RankedDocuments : BatchStart(doc)
  \/ ExtractNoContext
  \/ ExtractSearch
  \/ AttemptContext
  \/ \E response \in ReplyAnswers : ProviderSucceeds(response)
  \/ ProviderFailsRetry
  \/ ProviderFailsFinal
  \/ FinishIndicator
  \/ BatchReturn

SpecReplies == InitBatch /\ [][NextReplies]_vars

\* normalize_value on its own: the value strings of the scenarios, and every
\* string of at most MaxValueLen characters over an alphabet of digits,
\* separators, signs, glyphs and white space (a space, a tab).
TonnesText ==
  Str(<<"1", ",", "2", "3", "4", ".", "5", " ", "t", "C", "O", "2", "e">>)
EuroText ==
  Str(<<"€", "1", "2", ".", "3", " ", "m", "i", "l", "l", "i", "o", "n">>)

ValueAlphabet == {"1", "2", ",", ".", "%", "-", "€", " ", "\t", "t"}
ValueStrings ==
  {Str(chars) :
     chars \in UNION {[1..n -> ValueAlphabet] : n \in 0..MaxValueLen}}
    \cup {TonnesText, PercentText, EuroText, NOT_FOUND}

NormalizeProbes ==
  {[fn |-> "normalize_value", args |-> <<value>>, done |-> FALSE,
    result |-> <<>>] : value \in ValueStrings}

ApplyNormalize ==
  /\ probe.fn = "normalize_value"
  /\ ~probe.done
  /\ probe' = [probe EXCEPT !.done = TRUE,
                            !.result = normalize_value(probe.args[1])]
  /\ UNCHANGED <<settings, gatewayVars, pc, nCalls, batchVars, threads, db>>

InitNormalize ==
  /\ InitState("idle", BatchSettings)
  /\ probe \in NormalizeProbes
  /\ threads = NoThreads
  /\ db = NoDatabase

NextNormalize == ApplyNormalize

SpecNormalize == InitNormalize /\ [][NextNormalize]_vars

\* ------------------------------------- extract_with_llm called concurrently
\* Threads call extract_with_llm on one LLMService (model=None,
\* use_cache=True).  Nothing in the method is synchronised, so each statement
\* that reads and writes an attribute of the service is a read step followed
\* by a write step, and the steps of the threads interleave.  The provider
\* is taken to be deterministic: a model always gives the same answer.
Threads == 1..NumThreads

IdleThread ==
  [pc |-> "idle", model |-> NoModel, cache_key |-> <<>>, attempt |-> 0,
   content |-> NoContent, input_tokens |-> 0, output_tokens |-> 0,
   cost |-> 0, loaded |-> 0, result |-> NoResponse, stored |-> FALSE]

AnswerOf(model) ==
  IF model = openai_model_primary
  THEN Answer(Reply("json", NumericText, Num(900), ""), 1000, 200)
  ELSE Answer(Reply("json", PercentText, Num(500), ""), 3000, 500)

ThreadUnchanged ==
  <<settings, call, history, pc, nCalls, batchVars, probe, db>>

\* Lines 142-158: resolve the model, check the cache, enter the retry loop.
ThreadCall(t, context) ==
  /\ threads[t].pc = "idle"
  /\ LET model == openai_model_primary
         full_prompt == FullPrompt(Indicators[1].name, context)
         cache_key == _get_cache_key(full_prompt, model)
         cached_response == CachedResponse(cache_key, TRUE)
     IN  threads' =
           [threads EXCEPT ![t] =
              IF cached_response # NoResponse
              THEN [@ EXCEPT !.pc = "done", !.cache_key = cache_key,
                             !.model = model, !.result = cached_response]
              ELSE IF settings.retry_attempts <= 0
              THEN [@ EXCEPT !.pc = "raised", !.cache_key = cache_key,
                             !.model = model]
              ELSE [@ EXCEPT !.pc = "request", !.cache_key = cache_key,
                             !.model = model]]
  /\ UNCHANGED <<ThreadUnchanged, total_tokens, total_cost, cache, liveLog>>

\* Lines 162-184: the provider answers; content, usage and cost are locals.
ThreadSucceeds(t, response) ==
  /\ threads[t].pc = "request"
  /\ threads' =
       [threads EXCEPT ![t] =
          [@ EXCEPT !.pc = "load_tokens",
                    !.content = response.content,
                    !.input_tokens = response.prompt_tokens,
                    !.output_tokens = response.completion_tokens,
                    !.cost = _calculate_cost(threads[t].model,
                                             response.prompt_tokens,
                                             response.completion_tokens)]]
  /\ liveLog' = Append(liveLog,
                       [model |-> threads[t].model,
                        input_tokens |-> response.prompt_tokens,
                        output_tokens |-> response.completion_tokens])
  /\ UNCHANGED <<ThreadUnchanged, total_tokens, total_cost, cache>>

\* Line 187, the read of self.total_tokens.
ThreadLoadTokens(t) ==
  /\ threads[t].pc = "load_tokens"
  /\ threads' = [threads EXCEPT ![t] =
                   [@ EXCEPT !.pc = "store_tokens", !.loaded = total_tokens]]
  /\ UNCHANGED <<ThreadUnchanged, total_tokens, total_cost, cache, liveLog>>

\* Line 187, the write of self.total_tokens.
ThreadStoreTokens(t) ==
  /\ threads[t].pc = "store_tokens"
  /\ total_tokens' = threads[t].loaded + threads[t].input_tokens
                       + threads[t].output_tokens
  /\ threads' = [threads EXCEPT ![t] = [@ EXCEPT !.pc = "load_cost"]]
  /\ UNCHANGED <<ThreadUnchanged, total_cost, cache, liveLog>>

\* Line 188, the read of self.total_cost.
ThreadLoadCost(t) ==
  /\ threads[t].pc = "load_cost"
  /\ threads' = [threads EXCEPT ![t] =
                   [@ EXCEPT !.pc = "store_cost", !.loaded = total_cost]]
  /\ UNCHANGED <<ThreadUnchanged, total_tokens, total_cost, cache, liveLog>>

\* Line 188, the write of self.total_cost.
ThreadStoreCost(t) ==
  /\ threads[t].pc = "store_cost"
  /\ total_cost' = threads[t].loaded + threads[t].cost
  /\ threads' = [threads EXCEPT ![t] = [@ EXCEPT !.pc = "save"]]
  /\ UNCHANGED <<ThreadUnchanged, total_tokens, cache, liveLog>>

\* Lines 190-208: the result is built, saved to the cache and returned.
ThreadSave(t) ==
  /\ threads[t].pc = "save"
  /\ LET th == threads[t]
         result == [content |-> th.content, model |-> th.model,
                    input_tokens |-> th.input_tokens,
                    output_tokens |-> th.output_tokens,
                    total_tokens |-> th.input_tokens + th.output_tokens,
                    cost_usd |-> th.cost]
     IN  /\ cache' = _save_to_cache(th.cache_key, result)
         /\ threads' = [threads EXCEPT ![t] =
                          [@ EXCEPT !.pc = "done", !.result = result,
                                    !.stored = TRUE]]
  /\ UNCHANGED <<ThreadUnchanged, total_tokens, total_cost, liveLog>>

\* Lines 210-222: the attempt fails and another one follows.
ThreadFailsRetry(t) ==
  /\ threads[t].pc = "request"
  /\ RetryAllowed(threads[t].attempt)
  /\ threads' = [threads EXCEPT ![t] =
                   [@ EXCEPT !.model = NextModel(@), !.attempt = @ + 1]]
  /\ UNCHANGED <<ThreadUnchanged, total_tokens, total_cost, cache, liveLog>>

\* Lines 210-213 and 223-224: the last attempt fails, its error is raised.
ThreadFailsFinal(t) ==
  /\ threads[t].pc = "request"
  /\ ~RetryAllowed(threads[t].attempt)
  /\ threads' = [threads EXCEPT ![t] = [@ EXCEPT !.pc = "raised"]]
  /\ UNCHANGED <<ThreadUnchanged, total_tokens, total_cost, cache, liveLog>>

InitThreads ==
  /\ InitState("threads", BatchSettings)
  /\ probe = NoProbe
  /\ threads = [t \in Threads |-> IdleThread]
  /\ db = NoDatabase

NextThreads ==
  \E t \in Threads :
    \/ \E context \in PageTexts : ThreadCall(t, context)
    \/ ThreadSucceeds(t, AnswerOf(threads[t].model))
    \/ ThreadLoadTokens(t)
    \/ ThreadStoreTokens(t)
    \/ ThreadLoadCost(t)
    \/ ThreadStoreCost(t)
    \/ ThreadSave(t)
    \/ ThreadFailsRetry(t)
    \/ ThreadFailsFinal(t)

SpecThreads == InitThreads /\ [][NextThreads]_vars

\* ------------------------------------------------- the database and its seed
\* INDICATORS: the name of each entry; entry k has "number" k.
INDICATORS ==
  << "Total Scope 1 GHG Emissions", "Total Scope 2 GHG Emissions",
     "Total Scope 3 GHG Emissions", "GHG Emissions Intensity",
     "Total Energy Consumption", "Renewable Energy Percentage",
     "Net Zero Target Year", "Green Financing Volume",
     "Total Employees", "Female Employees",
     "Gender Pay Gap", "Training Hours per Employee",
     "Employee Turnover Rate", "Work-Related Accidents",
     "Collective Bargaining Coverage", "Board Female Representation",
     "Board Meetings", "Corruption Incidents",
     "Avg Payment Period to Suppliers", "Suppliers Screened for ESG" >>

COMPANIES ==
  << [name |-> "Allied Irish Banks (AIB)", country |-> "Ireland"],
     [name |-> "BBVA", country |-> "Spain"],
     [name |-> "Groupe BPCE", country |-> "France"] >>

\* select(...).where(name == name): the rows of a table with that name.
Named(rows, name) == SelectSeq(rows, LAMBDA r : r.name = name)

\* session.add and flush of a row: the column name is unique, so a second row
\* of the same name raises IntegrityError and the session is rolled back.
Insert(rows, row) ==
  IF Named(rows, row.name) # <<>>
  THEN [raised |-> TRUE, rows |-> rows]
  ELSE [raised |-> FALSE, rows |-> Append(rows, row)]

create_indicator(rows, name, indicator_number) ==
  Insert(rows, [name |-> name, indicator_number |-> indicator_number])

create_company(rows, name, country) ==
  Insert(rows, [name |-> name, country |-> country])

\* get_or_create_company: scalar_one_or_none raises for more than one row.
get_or_create_company(rows, name, country) ==
  IF Len(Named(rows, name)) > 1 THEN [raised |-> TRUE, rows |-> rows]
  ELSE IF Named(rows, name) # <<>> THEN [raised |-> FALSE, rows |-> rows]
  ELSE create_company(rows, name, country)

\* seed_indicators from entry k on: an entry whose name has a row is skipped,
\* any exception is logged and the loop goes on.
RECURSIVE seed_indicators(_, _)
seed_indicators(rows, k) ==
  IF k > Len(INDICATORS) THEN rows
  ELSE seed_indicators(
         IF Named(rows, INDICATORS[k]) # <<>> THEN rows
         ELSE create_indicator(rows, INDICATORS[k], k).rows,
         k + 1)

\* seed_companies from entry k on.
RECURSIVE seed_companies(_, _)
seed_companies(rows, k) ==
  IF k > Len(COMPANIES) THEN rows
  ELSE seed_companies(
         get_or_create_company(rows, COMPANIES[k].name,
                               COMPANIES[k].country).rows,
         k + 1)

\* Mutant of InsertByNumber: ORDER BY indicator_number DESC.
RECURSIVE InsertByNumber_Descending(_, _)
InsertByNumber_Descending(sorted, row) ==
  IF sorted = <<>> THEN <<row>>
  ELSE IF Head(sorted).indicator_number >= row.indicator_number
       THEN <<Head(sorted)>> \o InsertByNumber_Descending(Tail(sorted), row)
       ELSE <<row>> \o sorted

\* ORDER BY indicator_number: a row goes behind the rows of a smaller or
\* equal number.
RECURSIVE InsertByNumber(_, _)
InsertByNumber(sorted, row) ==
  IF sorted = <<>> THEN <<row>>
  ELSE IF Head(sorted).indicator_number <= row.indicator_number
       THEN <<Head(sorted)>> \o InsertByNumber(Tail(sorted), row)
       ELSE <<row>> \o sorted

RECURSIVE get_all_indicators(_)
get_all_indicators(rows) ==
  IF rows = <<>> THEN <<>>
  ELSE InsertByNumber(get_all_indicators(SubSeq(rows, 1, Len(rows) - 1)),
                      rows[Len(rows)])

DatabaseUnchanged ==
  <<settings, gatewayVars, pc, nCalls, batchVars, probe, threads>>

\* seed_database(db_manager)
SeedDatabase ==
  /\ db.seeds < MaxSeeds
  /\ db' = [db EXCEPT !.indicators = seed_indicators(@, 1),
                      !.companies = seed_companies(@, 1),
                      !.seeds = @ + 1]
  /\ UNCHANGED DatabaseUnchanged

\* Another caller creates a company (its exception, if any, is its own).
CreateCompany(name, country) ==
  /\ db' = [db EXCEPT !.companies = create_company(@, name, country).rows]
  /\ db' # db
  /\ UNCHANGED DatabaseUnchanged

\* Another caller creates an indicator.
CreateIndicator(name, indicator_number) ==
  /\ db' = [db EXCEPT
              !.indicators = create_indicator(@, name, indicator_number).rows,
              !.created = @ + 1]
  /\ db'.indicators # db.indicators
  /\ UNCHANGED DatabaseUnchanged

OtherCompanies ==
  { [name |-> "Test Company", country |-> "Test Country"],
    [name |-> "BBVA", country |-> "Spain"],
    [name |-> "Allied Irish Banks (AIB)", country |-> "Ireland"],
    [name |-> "Groupe BPCE", country |-> "France"] }

InitSeed ==
  /\ InitState("idle", BatchSettings)
  /\ probe = NoProbe
  /\ threads = NoThreads
  /\ db = NoDatabase

NextSeed ==
  \/ SeedDatabase
  \/ \E c \in OtherCompanies : CreateCompany(c.name, c.country)
  \/ CreateIndicator("Test Indicator", 99)

SpecSeed == InitSeed /\ [][NextSeed]_vars

\* ================================================================= claims
\* The last completed gateway call and the one before it.
Last == history[Len(history)]
Prev == history[Len(history) - 1]

NumFailed(attempts) == Cardinality({k \in DOMAIN attempts : ~attempts[k].ok})
NumSucceeded(attempts) == Cardinality({k \in DOMAIN attempts : attempts[k].ok})

\* Two successive calls with identical (model, prompt, context), caching
\* enabled and use_cache=true, the first of which succeeded.
RepeatedCall ==
  /\ Len(history) >= 2
  /\ settings.enable_caching
  /\ Prev.use_cache /\ Last.use_cache
  /\ Prev.requested = Last.requested
  /\ Prev.full_prompt = Last.full_prompt
  /\ Prev.ok

LedgerUntouched(rec) ==
  /\ rec.after.tokens = rec.before.tokens
  /\ rec.after.cost = rec.before.cost
  /\ rec.after.live = rec.before.live

PriceOf(model, kind) ==
  CASE model = "gpt-4-turbo-preview" -> IF kind = "input" THEN 100 ELSE 300
    [] model = "gpt-4" -> IF kind = "input" THEN 300 ELSE 600
    [] OTHER -> IF kind = "input" THEN 5 ELSE 15

\* The scenario of C2: 3 retry attempts, fallback enabled, a call started on
\* the primary model whose first attempt failed and whose second succeeded.
FailOnceThenSucceed(rec) ==
  /\ settings.retry_attempts = 3
  /\ settings.use_fallback_model
  /\ rec.requested = openai_model_primary
  /\ Len(rec.attempts) >= 2
  /\ ~rec.attempts[1].ok
  /\ rec.attempts[2].ok

\* C2: in that scenario the call makes exactly 2 provider attempts, the second
\* with the fallback model, and updates the ledger exactly once, by the tokens
\* and the cost of the successful attempt only.
C2_RetryWithFallback ==
  \A k \in DOMAIN history :
    FailOnceThenSucceed(history[k]) =>
      LET rec == history[k]
          r == rec.response
      IN  /\ Len(rec.attempts) = 2
          /\ rec.ok
          /\ rec.attempts[1].model = openai_model_primary
          /\ rec.attempts[2].model = openai_model_fallback
          /\ r.model = openai_model_fallback
          /\ rec.after.live = rec.before.live + 1
          /\ rec.after.tokens = rec.before.tokens + r.input_tokens + r.output_tokens
          /\ rec.after.cost = rec.before.cost + r.cost_usd
          /\ r.cost_usd = r.input_tokens * PriceOf(openai_model_fallback, "input")
                          + r.output_tokens * PriceOf(openai_model_fallback, "output")

\* C2 witness: such a call has completed.
C2_Witness ==
  /\ Len(history) >= 1
  /\ FailOnceThenSucceed(Last)
  /\ Last.after.tokens > Last.before.tokens

\* The models of the attempts of a call, the one in flight included.
AttemptModels(c, inFlight) ==
  [k \in 1..Len(c.attempts) |-> c.attempts[k].model]
    \o (IF inFlight THEN <<c.model>> ELSE <<>>)

ModelRule(models) ==
  /\ \A k \in 1..(Len(models) - 1) :
       models[k + 1] =
         IF settings.use_fallback_model /\ models[k] = openai_model_primary
         THEN openai_model_fallback
         ELSE models[k]
  /\ \A k \in 2..Len(models) :
       settings.use_fallback_model => models[k] # openai_model_primary

StartsOn(requested, models) ==
  /\ models # <<>> => models[1] = requested
  /\ (requested # openai_model_primary \/ ~settings.use_fallback_model) =>
       \A k \in DOMAIN models : models[k] = requested

\* C3: within one call the model of attempt k+1 (which follows a failed
\* attempt k) is the fallback model if fallback is enabled and attempt k used
\* the primary model, and the model of attempt k otherwise; so the primary
\* model is tried at most once, as the first attempt, and a call started on
\* another model never switches.
C3_ModelSwitchRule ==
  /\ \A k \in DOMAIN history :
       /\ ModelRule(AttemptModels(history[k], FALSE))
       /\ StartsOn(history[k].requested, AttemptModels(history[k], FALSE))
       /\ \A j \in 1..(Len(history[k].attempts) - 1) : ~history[k].attempts[j].ok
  /\ call.active =>
       /\ ModelRule(AttemptModels(call, TRUE))
       /\ StartsOn(call.requested, AttemptModels(call, TRUE))

\* C3 witness: a call started on the primary model has made three attempts,
\* and a call started on another model has failed twice.
C3_Witness ==
  /\ Len(history) >= 2
  /\ settings.use_fallback_model
  /\ Prev.requested = openai_model_primary
  /\ Len(Prev.attempts) = 3
  /\ Last.requested # openai_model_primary
  /\ Len(Last.attempts) >= 2

\* C4: a call all of whose provider attempts fail makes exactly
\* retry_attempts attempts, then raises (no response, the activation is over),
\* and leaves the ledger and the cache as they were before the call.
C4_RetriesExhausted ==
  \A k \in DOMAIN history :
    LET rec == history[k]
    IN  /\ (rec.attempts # <<>> /\ NumSucceeded(rec.attempts) = 0) => ~rec.ok
        /\ ~rec.ok =>
             /\ Len(rec.attempts) = settings.retry_attempts
             /\ NumFailed(rec.attempts) = settings.retry_attempts
             /\ rec.response = NoResponse
             /\ LedgerUntouched(rec)
             /\ rec.after.cache = rec.before.cache
             /\ Len(rec.slept) = Max(0, settings.retry_attempts - 1)

\* C4 witness: a call has failed after three attempts, with the ledger and
\* the cache holding what an earlier call left.
C4_Witness ==
  /\ Len(history) >= 2
  /\ ~Last.ok
  /\ Len(Last.attempts) = 3
  /\ Last.before.tokens > 0
  /\ Last.before.cache # <<>>
  /\ call = IdleCall

RECURSIVE SumTokens(_)
SumTokens(log) ==
  IF log = <<>> THEN 0
  ELSE log[1].input_tokens + log[1].output_tokens + SumTokens(Tail(log))

RECURSIVE SumCost(_)
SumCost(log) ==
  IF log = <<>> THEN 0
  ELSE log[1].input_tokens * PriceOf(log[1].model, "input")
       + log[1].output_tokens * PriceOf(log[1].model, "output")
       + SumCost(Tail(log))

LedgerIsSumOfLiveResponses ==
  /\ total_tokens = SumTokens(liveLog)
  /\ total_cost = SumCost(liveLog)

\* C5: at any time the ledger's total_tokens is the sum of input_tokens +
\* output_tokens over the successful live provider responses and total_cost
\* the sum of their costs, each priced at the model that answered; failed
\* attempts and cache hits add nothing, and the ledger never decreases.
C5_LedgerAccounting ==
  /\ []LedgerIsSumOfLiveResponses
  /\ [][/\ total_tokens' >= total_tokens
        /\ total_cost' >= total_cost
        /\ (liveLog' = liveLog =>
              total_tokens' = total_tokens /\ total_cost' = total_cost)]_vars

\* C5 witness: two live responses, one of them by the fallback model after a
\* failed attempt, the other by a model that TOKEN_COSTS does not list.
C5_Witness ==
  /\ Len(liveLog) = 2
  /\ \E k \in DOMAIN liveLog : liveLog[k].model = openai_model_fallback
  /\ \E k \in DOMAIN liveLog : liveLog[k].model = "unlisted-model"
  /\ \E k \in DOMAIN history : NumFailed(history[k].attempts) > 0
  /\ total_tokens > 0

\* C6 as stated: a ledger above its cap never makes get_cost_summary raise,
\* for any configured cap, and never keeps the gateway from calling the
\* provider and updating the ledger.
C6_BudgetCapIsAdvisory ==
  /\ total_cost > settings.max_api_cost_usd => ~get_cost_summary.raised
  /\ \A k \in DOMAIN history :
       (history[k].before.cost >= settings.max_api_cost_usd
          /\ NumSucceeded(history[k].attempts) = 1) =>
         history[k].after.cost > history[k].before.cost

\* ------------------------------------------------- claims about the batch
Conf(c) == GetConfidence(c).v

\* The context loop of the current indicator is running or has just ended.
InLoop == pc \in {"context_loop", "provider", "after_loop"}

\* C7: the candidate the context loop holds as its choice is one of the
\* candidates produced for the indicator, and its confidence is greater than
\* or equal to that of every candidate produced (so of every one discarded).
C7_ChosenIsMaximal ==
  (InLoop /\ best_result.some) =>
    /\ \E k \in DOMAIN produced : produced[k] = best_result
    /\ Conf(best_result) = best_confidence
    /\ \A k \in DOMAIN produced :
         produced[k].some => Conf(produced[k]) <= Conf(best_result)

\* C7 witness: the loop has ended with a choice and with a discarded
\* candidate of lower confidence that came after it.
C7_Witness ==
  /\ pc = "after_loop"
  /\ Len(produced) >= 2
  /\ best_result = produced[1]
  /\ produced[2].some
  /\ Conf(produced[2]) < Conf(best_result)

High(c) == c.some /\ c.confidence.t = "num" /\ c.confidence.v >= confidence_stop

\* No context is attempted once a candidate of confidence >= 0.8 was produced.
NothingAfterHighConfidence ==
  /\ \A k \in 1..(Len(produced) - 1) : ~High(produced[k])
  /\ pc \in {"context_loop", "provider"} =>
       \A k \in DOMAIN produced : ~High(produced[k])

FirstContextHigh == Len(produced) >= 1 /\ High(produced[1])

\* C8 as stated: nothing is attempted after the best confidence reached 0.8,
\* and if the first context yields >= 0.8 no second context is attempted and
\* the provider call count for the indicator is 1.
C8_OneProviderCall ==
  /\ NothingAfterHighConfidence
  /\ FirstContextHigh => Len(produced) = 1 /\ provider_calls = 1

\* C8 amended: nothing is attempted after the best confidence reached 0.8,
\* and if the first context yields >= 0.8 no second context is attempted:
\* exactly one gateway call is made for the indicator, which issues at most
\* retry_attempts provider calls (the failed attempts before the successful
\* one included).
C8_EarlyStop ==
  /\ NothingAfterHighConfidence
  /\ FirstContextHigh =>
       /\ Len(produced) = 1
       /\ pc # "context_loop"
       /\ provider_calls <= settings.retry_attempts

\* C8 witness: the loop stopped after the first of several contexts, whose
\* gateway call needed two provider attempts.
C8_Witness ==
  /\ pc = "after_loop"
  /\ FirstContextHigh
  /\ Len(Attempted(contexts)) >= 2
  /\ provider_calls = 2

\* The record of the indicator that was processed last, once the processing
\* that tried contexts is over.
LastRecord == results[Len(results)]
IndicatorDone ==
  /\ pc \in {"batch_loop", "returned"}
  /\ results # <<>>
  /\ contexts # <<>>

\* The earliest of the candidates cands[k], k in S, of maximal confidence.
BestOf(cands, S) ==
  CHOOSE k \in S :
    \A j \in S : \/ Conf(cands[k]) > Conf(cands[j])
                 \/ Conf(cands[k]) = Conf(cands[j]) /\ k <= j

\* C9, for the indicators that do not end in Error: the indicator ends
\* NotFound exactly when no attempt produced a candidate or the best
\* candidate's value is the sentinel, and Found in every other case, whatever
\* the confidence of the candidates (0.0 included).  The replies considered
\* state a confidence within [0,1] and no extraction_method of their own.
C9_FoundWhateverTheConfidence ==
  (IndicatorDone /\ LastRecord.extraction_method # "error"
     /\ \A k \in DOMAIN produced :
          produced[k].some =>
            /\ Conf(produced[k]) >= 0 /\ Conf(produced[k]) <= 1000
            /\ produced[k].extraction_method = "") =>
    LET S == {k \in DOMAIN produced : produced[k].some}
    IN  (LastRecord.extraction_method = "not_found")
          <=> (S = {} \/ produced[BestOf(produced, S)].value = NOT_FOUND)

\* C10: the batch returns exactly one record per catalogue indicator, in
\* catalogue order (record i carries the id and the name of indicator i),
\* whatever the outcomes of the indicators.
C10_OneRecordPerIndicator ==
  /\ Len(results) <= NumIndicators
  /\ \A i \in DOMAIN results :
       /\ results[i].indicator_id = Indicators[i].id
       /\ results[i].indicator_name = Indicators[i].name
  /\ pc = "returned" => Len(results) = NumIndicators
  /\ pc = "batch_loop" => Len(results) = idx - 1

\* C10 witness: a batch has returned its records, the first of them an Error
\* and a later one Found.
C10_Witness ==
  /\ pc = "returned"
  /\ Len(results) = NumIndicators
  /\ results[1].extraction_method = "error"
  /\ \E i \in DOMAIN results : results[i].extraction_method = "direct"

\* The document with every page given a list of tables: the run in which no
\* scoring failure occurs.
Repaired(doc) == [n \in DOMAIN doc |-> PageContent(doc[n].text, "list")]

ScoringErrorNote ==
  Note("Extraction error", "object of type 'NoneType' has no len()", 0)

\* The indicator at hand is being extracted (its scoring did not raise).
Extracting == pc \in {"context_loop", "provider", "after_loop"}

\* Every indicator whose scoring raises has an Error record carrying the
\* message, the batch returns one record per indicator, and an indicator whose
\* scoring does not raise works on the contexts of the repaired document.
ResilientRecords ==
  /\ pc = "returned" => Len(results) = NumIndicators
  /\ \A i \in DOMAIN results :
       ScoringRaises(Indicators[i], pages) =>
         /\ results[i].extraction_method = "error"
         /\ results[i].notes = ScoringErrorNote
         /\ results[i].indicator_id = Indicators[i].id
  /\ Extracting =>
       /\ ~ScoringRaises(Indicators[idx], pages)
       /\ contexts = create_context_for_indicator(
                        Indicators[idx], Repaired(pages), contexts_requested)

\* The step of an indicator whose scoring raises appends one record and
\* touches nothing the other indicators read; no step changes a record that
\* was emitted, and the cache entries written for an indicator are keyed by
\* that indicator's own prompt.
ResilientStep ==
  /\ (pc = "batch_loop" /\ idx <= NumIndicators /\ results' # results
        /\ ScoringRaises(Indicators[idx], pages)) =>
       /\ Len(results') = Len(results) + 1
       /\ gatewayVars' = gatewayVars
       /\ settings' = settings /\ pages' = pages
       /\ pc' = "batch_loop" /\ idx' = idx + 1
  /\ pc # "start" =>
       /\ Len(results') >= Len(results)
       /\ SubSeq(results', 1, Len(results)) = results
       /\ \A k \in DOMAIN cache' \ DOMAIN cache :
            k[2][1] = Indicators[idx].name

GatewayFailed == \E k \in DOMAIN produced : ~produced[k].some

\* C12: when the gateway call of a context attempt fails with its retries
\* exhausted (every one of its retry_attempts >= 1 attempts failed), the
\* indicator's record is an Error record (extraction_method
\* "error", notes carrying the failure message).
C12_GatewayFailureIsError ==
  (IndicatorDone /\ GatewayFailed /\ settings.retry_attempts >= 1) =>
    /\ LastRecord.extraction_method = "error"
    /\ LastRecord.notes.prefix = "Extraction error"

NoContextNote == Note("Not found", "No relevant context found in document", 0)

\* The step that processes an indicator for which the ranker returns nothing.
NoContextStep ==
  /\ pc = "batch_loop"
  /\ idx <= NumIndicators
  /\ ~ScoringRaises(Indicators[idx], pages)
  /\ create_context_for_indicator(Indicators[idx], pages,
                                  contexts_requested) = <<>>
  /\ results' # results

\* C13: if the ranker returns no context for an indicator, the indicator ends
\* NotFound at once (extraction_method "not_found", confidence 0.0, null
\* value, the reason naming the missing context) in a step that makes no
\* gateway call, touches neither the cache nor the ledger and records no
\* error.
C13_NoContextIsNotFound ==
  [][NoContextStep =>
       /\ gatewayVars' = gatewayVars
       /\ provider_calls' = 0
       /\ pc' = "batch_loop" /\ idx' = idx + 1
       /\ Len(results') = Len(results) + 1
       /\ LET record == results'[Len(results')]
          IN  /\ record.indicator_id = Indicators[idx].id
              /\ record.extraction_method = "not_found"
              /\ record.confidence = 0
              /\ record.value = None
              /\ record.numeric_value = NoNumber
              /\ record.notes = NoContextNote]_vars

\* C13 witness: the first indicator was found through the gateway, the second
\* one had no context and carries the NotFound record.
C13_Witness ==
  /\ pc = "returned"
  /\ results[1].extraction_method = "direct"
  /\ total_tokens > 0
  /\ results[2].extraction_method = "not_found"
  /\ results[2].notes = NoContextNote

\* The record went through _post_process_result (it is no NotFound and no
\* Error record, which carry a note).
PostProcessed(record) == record.notes = NoNote

Clamped(v) == Max(0, Min(1000, v))

\* C14: every record emitted has a confidence in [0,1], and the confidence of
\* a post-processed record is the stated confidence of the chosen candidate
\* clamped into [0,1], whatever number the reply states (1.4 and -0.2
\* included).
C14_ConfidenceInUnitInterval ==
  /\ \A i \in DOMAIN results :
       results[i].confidence >= 0 /\ results[i].confidence <= 1000
  /\ (IndicatorDone /\ PostProcessed(LastRecord)) =>
       /\ best_result.some
       /\ LastRecord.confidence = Clamped(Conf(best_result))

\* C14 witness: a reply stated 1.4 and the record stores 1.0; a reply that
\* stated -0.2 was seen for the same indicator.
C14_Witness ==
  /\ IndicatorDone
  /\ PostProcessed(LastRecord)
  /\ Conf(best_result) = 1400
  /\ LastRecord.confidence = 1000
  /\ \E k \in DOMAIN produced : produced[k].some /\ Conf(produced[k]) = -200

\* C15: every record emitted whose extraction_method is "not_found" or
\* "error" carries confidence 0.0 and a null value, whatever the replies
\* (those that state an extraction_method of their own included).
C15_UnresolvedCarriesNothing ==
  \A i \in DOMAIN results :
    results[i].extraction_method \in {"not_found", "error"} =>
      /\ results[i].confidence = 0
      /\ results[i].value = None

RankedBefore(a, b) ==
  \/ a.relevance_score > b.relevance_score
  \/ a.relevance_score = b.relevance_score /\ a.page_number < b.page_number

\* The pages of doc whose score for the indicator is positive.
RelevantPages(indicator, doc) ==
  {n \in DOMAIN doc : relevance_score(indicator, doc[n].text) > 0}

\* C17: create_context_for_indicator returns the first max_contexts elements
\* of the pages of score > 0 sorted by score descending, ties in page order:
\* the result has min(max_contexts, number of relevant pages) elements, each
\* the context of a relevant page with its score, in ranked order, and every
\* relevant page left out ranks behind every element returned; the result is
\* empty when no page scores > 0.
C17_RankedContexts ==
  probe.done =>
    LET indicator == Indicators[probe.args[1]]
        doc == probe.args[2]
        max_contexts == probe.args[3]
        relevant == RelevantPages(indicator, doc)
        R == probe.result
        returned == {R[j].page_number : j \in DOMAIN R}
    IN  /\ Len(R) = Min(max_contexts, Cardinality(relevant))
        /\ relevant = {} => R = <<>>
        /\ \A j \in DOMAIN R :
             /\ R[j].page_number \in relevant
             /\ R[j].relevance_score > 0
             /\ R[j].relevance_score =
                  relevance_score(indicator, doc[R[j].page_number].text)
             /\ R[j].text = doc[R[j].page_number].text
        /\ \A j, k \in DOMAIN R : j < k => RankedBefore(R[j], R[k])
        /\ \A n \in relevant \ returned :
             \A j \in DOMAIN R :
               RankedBefore(R[j],
                            [page_number |-> n,
                             relevance_score |->
                               relevance_score(indicator, doc[n].text)])

\* C17 witness: three relevant pages, two of them with equal scores and the
\* lower-scored one first in the document; two contexts are asked for.
C17_Witness ==
  /\ probe.done
  /\ probe.args[3] = 2
  /\ Cardinality(RelevantPages(Indicators[probe.args[1]], probe.args[2])) = 3
  /\ Len(probe.result) = 2
  /\ probe.result[1].relevance_score = probe.result[2].relevance_score
  /\ probe.result[1].page_number = 2
  /\ probe.result[2].page_number = 3

\* ------------------------------------------------ claims about normalize_value
\* What the claim has normalize_value strip from the value string: thousands
\* separators, white space, '%' and currency glyphs.
Whitespace == {" ", "\t"}
Stripped == {","} \cup Whitespace \cup {"%", "€", "$", "£", "¥"}

\* C18: normalize_value strips thousands separators, whitespace, '%' and
\* currency glyphs and returns the first signed decimal number of what
\* remains, or no numeric value when there is none: it never raises on a
\* string, gives no value exactly when no digit remains, gives the same
\* result as on the stripped string, a negative number only when a '-' stands
\* right before the first digit; "1,234.5 tCO2e" gives 1234.5, "45%" gives
\* 45.0, a euro sign followed by "12.3 million" gives 12.3 and "NOT_FOUND"
\* gives no numeric value.
C18_NormalizeValue ==
  probe.done =>
    LET value == probe.args[1]
        rest == Without(value.s, Stripped)
        digits == {i \in DOMAIN rest : rest[i] \in Digits}
        number == probe.result.number
    IN  /\ ~probe.result.raised
        /\ number = NoNumber <=> digits = {}
        /\ probe.result = normalize_value(Str(rest))
        /\ digits # {} =>
             LET first == CHOOSE i \in digits : \A j \in digits : i <= j
             IN  /\ number.t = "float"
                 /\ number.v < 0 => (first > 1 /\ rest[first - 1] = "-")
                 /\ (first > 1 /\ rest[first - 1] = "-") => number.v <= 0
        /\ value = TonnesText => number = Float(1234500)
        /\ value = PercentText => number = Float(45000)
        /\ value = EuroText => number = Float(12300)
        /\ value = NOT_FOUND => number = NoNumber

\* ---------------------------------------------- claims about concurrent calls
\* Every concurrent call has returned or raised.
AllDone == \A t \in Threads : threads[t].pc \in {"done", "raised"}

\* C19: when gateway calls run concurrently on one gateway, the ledger loses
\* no update: once all calls have completed, total_tokens is the sum of the
\* tokens of all successful live responses.
C19_NoLostUpdate ==
  AllDone => total_tokens = SumTokens(liveLog)

\* C20: concurrent calls racing on one cache key store the same thing: when
\* two calls have each written their live response under the same key, the
\* entry under the key has the content and the model of the response of
\* either writer.
C20_RacingWritersAgree ==
  \A t, u \in Threads :
    (t # u /\ threads[t].stored /\ threads[u].stored
       /\ threads[t].pc = "done" /\ threads[u].pc = "done"
       /\ threads[t].cache_key = threads[u].cache_key) =>
      /\ cache[threads[t].cache_key].content = threads[t].result.content
      /\ cache[threads[t].cache_key].model = threads[t].result.model
      /\ threads[t].result.content = threads[u].result.content
      /\ threads[t].result.model = threads[u].result.model

\* ------------------------------------------------ claims about the database
\* The rows of the catalogue, in catalogue order.
Catalogue ==
  [k \in 1..Len(INDICATORS) |->
     [name |-> INDICATORS[k], indicator_number |-> k]]

\* C21: seed_database is idempotent: after seeding an initially empty
\* database one or more times, with no other indicator creation,
\* get_all_indicators returns exactly the 20 catalogue indicators in the order
\* of their numbers, and each seeded company exists exactly once, with its
\* country.
C21_SeedIsIdempotent ==
  /\ Len(INDICATORS) = 20
  /\ (db.seeds >= 1 /\ db.created = 0) =>
       get_all_indicators(db.indicators) = Catalogue
  /\ db.seeds >= 1 =>
       \A k \in DOMAIN COMPANIES :
         /\ Len(Named(db.companies, COMPANIES[k].name)) = 1
         /\ Named(db.companies, COMPANIES[k].name)[1].country
              = COMPANIES[k].country

\* C21 witness: the database was seeded three times, the first time after
\* another caller had created one of the seeded companies.
C21_Witness ==
  /\ db.seeds = MaxSeeds
  /\ db.created = 0
  /\ Len(db.indicators) = 20
  /\ Len(db.companies) = 4
  /\ db.companies[1].name = "BBVA"

\* --------------------------------------------- claims about the context loop
\* The prompt and context the gateway gets for the context at position ctx_i.
PromptOfContext ==
  FullPrompt(Indicators[idx].name, contexts[ctx_i].text)

\* The contexts of the indicator at hand are the (at most 5) ranked ones; the
\* loop stands at one of the first 3, every earlier one has had its gateway
\* call and candidate k came from context k.
AttemptsInRankedOrder ==
  /\ contexts_requested = 5 /\ contexts_tried = 3
  /\ Len(contexts) <= 5
  /\ Extracting =>
       /\ contexts = create_context_for_indicator(Indicators[idx], pages, 5)
       /\ ctx_i \in 1..Min(3, Len(contexts))
       /\ Len(produced) = IF pc = "after_loop" THEN ctx_i ELSE ctx_i - 1
       /\ \A k \in DOMAIN produced :
            produced[k].some =>
              /\ produced[k].source_page = contexts[k].page_number
              /\ produced[k].raw_text = contexts[k].text
       /\ pc = "provider" =>
            call.active /\ call.full_prompt = PromptOfContext

\* A step of the loop: attempting a context makes one gateway call, for that
\* context; the call lasts until it hands over one result; nothing else calls
\* the gateway.
OneCallPerContext ==
  /\ pc = "context_loop" =>
       \/ /\ pc' = "provider"
          /\ produced' = produced
          /\ call'.active /\ call'.full_prompt = PromptOfContext
       \/ /\ pc' # "provider"
          /\ Len(produced') = Len(produced) + 1
          /\ ~call'.active
          /\ history'[Len(history')].full_prompt = PromptOfContext
  /\ pc = "provider" =>
       \/ /\ pc' = "provider" /\ produced' = produced
          /\ call'.full_prompt = call.full_prompt
       \/ /\ pc' # "provider" /\ Len(produced') = Len(produced) + 1
          /\ ~call'.active
  /\ pc \notin {"context_loop", "provider"} =>
       ~call'.active /\ history' = history

\* C22: for each indicator at most 5 ranked contexts are requested and at most
\* the first 3 of them are attempted, in ranked order, one gateway call per
\* attempted context; the contexts ranked 4th and 5th are never sent to the
\* gateway.
C22_TopThreeOfFive ==
  []AttemptsInRankedOrder /\ [][OneCallPerContext]_vars

\* C22 witness: five contexts were ranked (pages 2, 4, 1, 3, 5), the loop
\* ended after three gateway calls, for pages 2, 4 and 1.
C22_Witness ==
  /\ pc = "after_loop"
  /\ Len(contexts) = 5
  /\ contexts[4].page_number = 3 /\ contexts[5].page_number = 5
  /\ Len(produced) = 3
  /\ produced[1].source_page = 2
  /\ produced[2].source_page = 4
  /\ produced[3].source_page = 1

\* The candidates produced for the indicator at hand.
Candidates == {k \in DOMAIN produced : produced[k].some}

\* C23: the incumbent is replaced only by the candidate just produced and
\* only if its confidence is strictly greater, so once the loop has ended the
\* chosen candidate is the earliest-attempted one among the candidates of
\* maximal confidence; a candidate is chosen whenever that confidence is
\* above the initial 0.0.
C23_EarliestOfMaximal ==
  /\ [][(best_result' # best_result /\ best_result'.some) =>
          /\ Conf(best_result') > best_confidence
          /\ best_result' = produced'[Len(produced')]]_vars
  /\ [](pc = "after_loop" =>
          /\ best_result.some =>
               best_result = produced[BestOf(produced, Candidates)]
          /\ (Candidates # {}
                /\ Conf(produced[BestOf(produced, Candidates)]) > 0) =>
               best_result.some)

\* C23 witness: three candidates, the second and the third of equal and
\* maximal confidence; the second one is the choice.
C23_Witness ==
  /\ pc = "after_loop"
  /\ Candidates = {1, 2, 3}
  /\ Conf(produced[1]) < Conf(produced[2])
  /\ Conf(produced[2]) = Conf(produced[3])
  /\ produced[3] # produced[2]
  /\ best_result = produced[2]

\* ------------------------------------------------- claims about the backoff
\* The waits of a gateway call that made n attempts so far, the last of them
\* still in flight or final: one wait after each earlier attempt, of
\* retry_delay * 2^i for the attempt of 0-based index i.
Backoff(slept, n) ==
  /\ Len(slept) = Max(0, n - 1)
  /\ \A k \in DOMAIN slept : slept[k] = retry_delay * 2 ^ (k - 1)
  /\ Len(slept) >= 1 => slept[1] = 2
  /\ Len(slept) >= 2 => slept[2] = 4

\* C24: after the failed attempt of 0-based index i that is not the last
\* allowed one the gateway waits retry_delay * 2^i (2 then 4 with the default
\* delay); it does not wait after the final failed attempt nor after a
\* success, so a call whose retry_attempts attempts all failed slept
\* retry_attempts - 1 times; a wait is made only by a failed attempt that is
\* followed by another one.
C24_ExponentialBackoff ==
  /\ [](/\ \A k \in DOMAIN history :
             /\ Backoff(history[k].slept, Len(history[k].attempts))
             /\ (~history[k].ok /\ history[k].attempts # <<>>) =>
                  Len(history[k].slept) = settings.retry_attempts - 1
         /\ call.active => Backoff(call.slept, Len(call.attempts) + 1))
  /\ [][(call.active /\ call'.active /\ call'.slept # call.slept) =>
          /\ call'.slept = Append(call.slept, retry_delay * 2 ^ call.attempt)
          /\ call'.attempt = call.attempt + 1
          /\ call'.attempt < settings.retry_attempts
          /\ ~call'.attempts[Len(call'.attempts)].ok]_vars

\* C24 witness: a call failed three times and slept 2 then 4; the call before
\* it succeeded on its second attempt and slept 2.
C24_Witness ==
  /\ Len(history) >= 2
  /\ ~Last.ok
  /\ Len(Last.attempts) = 3
  /\ Last.slept = <<2, 4>>
  /\ Prev.ok
  /\ Prev.slept = <<2>>

\* ------------------------------------- claims about non-numeric confidences
\* The confidence field of the candidate is there and is no number.
NonNumericConfidence(c) ==
  c.some /\ c.confidence.t \notin {"num", "missing"}

\* C25: a reply whose confidence field is not a number is given confidence
\* 0.5: when the only candidate of an indicator is such a reply (with a value
\* other than the sentinel), the indicator's record is no Error record, it
\* carries the candidate's value and confidence 0.5.
C25_NonNumericConfidenceIsHalf ==
  (IndicatorDone /\ Len(produced) = 1 /\ NonNumericConfidence(produced[1])
     /\ produced[1].value = NumericText) =>
    /\ LastRecord.extraction_method # "error"
    /\ LastRecord.value = NumericText
    /\ LastRecord.confidence = 500

\* ------------------------------------------------ claims about termination
\* The three terminal states of an indicator, read off its record.
Terminal(record) ==
  CASE record.notes = NoNote -> "Found"
    [] record.notes.prefix = "Not found" -> "NotFound"
    [] record.notes.prefix = "Extraction error" -> "Error"
    [] OTHER -> "none"

\* At most 3 gateway calls and 3 * retry_attempts provider attempts were made
\* for the indicator at hand, and every record emitted is in a terminal state.
BoundedWork ==
  /\ Len(produced) <= 3
  /\ provider_calls <= 3 * settings.retry_attempts
  /\ provider_calls <=
       (Len(produced) + (IF pc = "provider" THEN 1 ELSE 0))
         * settings.retry_attempts
  /\ \A i \in DOMAIN results :
       Terminal(results[i]) \in {"Found", "NotFound", "Error"}

\* The count of provider attempts grows by one at a time and starts again
\* only when the next indicator is taken up; an indicator is taken up once.
CountedPerIndicator ==
  /\ provider_calls' # provider_calls =>
       \/ provider_calls' = provider_calls + 1 /\ idx' = idx
       \/ provider_calls' = 0 /\ pc = "batch_loop"
  /\ idx' # idx => idx' = idx + 1 /\ idx' <= NumIndicators + 1
  /\ (pc # "start" /\ idx' # idx) => Len(results') = Len(results) + 1

\* C26: processing an indicator terminates in exactly one of Found, NotFound
\* and Error after at most 3 gateway calls and at most 3 * retry_attempts
\* provider attempts, and the batch over n indicators terminates, each
\* indicator being processed once (so after at most 3 * n * retry_attempts
\* provider attempts), provided every provider call returns or fails.
C26_Terminates ==
  /\ []BoundedWork
  /\ [][CountedPerIndicator]_vars
  /\ <>[](pc = "returned" /\ Len(results) = NumIndicators)

\* C26 witness: an indicator ended after 3 gateway calls that took 3 provider
\* attempts each.
C26_Witness ==
  /\ IndicatorDone
  /\ settings.retry_attempts = 3
  /\ Len(produced) = 3
  /\ provider_calls = 9
  /\ Terminal(LastRecord) = "Found"

\* ------------------------------------------- claims about the cache entries
\* C27: every cache entry stored under the key of (model m, full prompt)
\* records model m, the model that produced its reply, and a call that hits
\* the cache returns a reply of the model it was made for, also when the call
\* that created the entry switched to the fallback model.
C27_EntryIsOfKeyModel ==
  /\ \A k \in DOMAIN cache : cache[k].model = k[1]
  /\ \A j \in DOMAIN history :
       (history[j].ok /\ history[j].attempts = <<>>) =>
         history[j].response.model = history[j].requested

\* ---------------------------------------- claims about the batch's accounting
RECURSIVE SumField(_, _)
SumField(records, field) ==
  IF records = <<>> THEN 0
  ELSE records[1][field] + SumField(Tail(records), field)

\* C28: when a batch run on a fresh gateway has returned, the sum of
\* tokens_used over its records is the ledger's total_tokens and the sum of
\* cost_usd is the ledger's total_cost, whatever candidates were discarded,
\* served from the cache or preceded by failed attempts (stated here for the
\* batches all of whose indicators were found).
C28_RecordsAddUpToLedger ==
  (pc = "returned"
     /\ \A i \in DOMAIN results : Terminal(results[i]) = "Found") =>
    /\ SumField(results, "tokens_used") = total_tokens
    /\ SumField(results, "cost_usd") = total_cost

\* ------------------------------------------------ claims about reply shapes
\* C29: every record emitted with extraction_method "table" or "direct" (a
\* Found result) has a value that is neither null nor the NOT_FOUND sentinel,
\* whatever reply the normalizer parsed, the replies with a null or missing
\* value included.
C29_FoundHasValue ==
  \A i \in DOMAIN results :
    results[i].extraction_method \in {"table", "direct"} =>
      /\ results[i].value # None
      /\ results[i].value # NOT_FOUND

\* The confidence a reply states, in thousandths: the number of the JSON
\* field; for a "confidence:" line a percentage (a number above 1) or a
\* fraction of 1.
Stated(content) ==
  IF content.fmt = "text" /\ content.conf.v > 1000
  THEN content.conf.v \div 100
  ELSE content.conf.v

\* C30: the line parser yields the confidence the structured path yields for
\* the same stated confidence: after a reply stating 0.9, as "confidence:
\* 90%", as "confidence: 0.9" or as the JSON number 0.9, the candidate has
\* confidence 0.9 and the loop has stopped early.
C30_TextConfidenceAsStructured ==
  (Extracting /\ produced # <<>> /\ Last.ok
     /\ Last.response.content.conf.t = "num"
     /\ Stated(Last.response.content) = 900) =>
    /\ produced[Len(produced)].some
    /\ Conf(produced[Len(produced)]) = 900
    /\ pc = "after_loop"

====
